---------------------------- MODULE Spec2Model ----------------------------
(***************************************************************************)
(* A model of the backend's token service (app/core/security.py), the     *)
(* three-tier auth resolver (app/api/v1/deps.py), the memoized Supabase    *)
(* client with the health endpoint (app/dependencies/supabase.py,          *)
(* app/api/v1/endpoints/health.py) and the request-scoped database         *)
(* session (app/core/database.py).                                         *)
(*                                                                         *)
(* Time is counted in ticks, TicksPerSec of them to a second, so that the  *)
(* truncation of a datetime to an integer "exp" claim is visible.          *)
(***************************************************************************)
EXTENDS Integers, FiniteSets, Sequences, TLC

VARIABLES
    now,        \* datetime.utcnow(), in ticks
    tok,        \* the token a client holds (issued, foreign, or none yet)
    iss,        \* how tok was issued by create_access_token, if it was
    res,        \* the last result of decode_access_token(tok)
    storage,    \* the rows of the users table
    pc,         \* where the request in flight is: idle, solving, endpoint, done
    route,      \* the tier the route of the request depends on: 0, 1 or 2
    creds,      \* the credentials HTTPBearer extracted for the request
    nxt,        \* the tier whose dependency is solved next
    dep,        \* what each tier's dependency returned or raised
    resp,       \* the response of the request
    decodes,    \* calls of decode_access_token made for the request
    call,       \* the last direct call of a tier's function, and its result
    supabase_url,   \* settings.supabase_url
    supabase_key,   \* settings.supabase_key
    cache,      \* the slot of lru_cache(maxsize=1) around get_supabase_client
    created,    \* calls of create_client so far
    calls,      \* calls of get_supabase_client so far
    lastGet,    \* the last call of get_supabase_client, and its result
    health,     \* the last call of health_check, and its response
    rq,         \* per request: where its get_async_session generator is
    sess        \* the sessions async_session_maker has made: open or closed

tokenVars == <<tok, iss, res>>
authVars == <<storage, pc, route, creds, nxt, dep, resp, decodes, call>>

healthVars == <<supabase_url, supabase_key, cache, created, calls, lastGet, health>>
sessionVars == <<rq, sess>>

vars == <<now, tokenVars, authVars, healthVars, sessionVars>>

-----------------------------------------------------------------------------
(* Bounds of the model *)

TicksPerSec == 2
MaxTicks == 4
MaxJumps == 1
MaxDelta == 3
MaxCalls == 3
MaxRequests == 2
MaxSessions == 3

-----------------------------------------------------------------------------
(* Settings (app/core/config.py) *)

secret_key == "dev-secret-key-change-in-production"
algorithm == "HS256"
access_token_expire_minutes == 30

\* timedelta(minutes=settings.access_token_expire_minutes), in ticks
DefaultDelta == access_token_expire_minutes * 60 * TicksPerSec

-----------------------------------------------------------------------------
(* Dictionaries: functions from a finite set of string keys *)

EmptyDict == [k \in {} |-> 0]

\* dict.update({k: v}): k is added, or overwritten when already present
DictUpdate(d, k, v) ==
    [x \in (DOMAIN d) \cup {k} |-> IF x = k THEN v ELSE d[x]]

\* dict.get(k): the value, or None (here NoValue) when k is absent
NoValue == "<None>"
DictGet(d, k) == IF k \in DOMAIN d THEN d[k] ELSE NoValue

UUID1 == "123e4567-e89b-12d3-a456-426614174000"
SubValues == {"", "not-a-uuid", UUID1}
EmailValues == {"a@example.com"}

SubDicts == {EmptyDict} \cup {[k \in {"sub"} |-> v] : v \in SubValues}
EmailDicts == {EmptyDict} \cup {[k \in {"email"} |-> v] : v \in EmailValues}
ExpDicts(S) == {EmptyDict} \cup {[k \in {"exp"} |-> v] : v \in S}

\* the claims dictionaries a caller passes to create_access_token
DataDicts == {s @@ e @@ x : s \in SubDicts, e \in EmailDicts, x \in ExpDicts({0})}

-----------------------------------------------------------------------------
(* python-jose as used by security.py: a token is its header's alg, its   *)
(* payload, and a signature that records the key and the payload signed.  *)

\* Optional[timedelta]: None, or a timedelta of so many ticks
NoDelta == [given |-> FALSE, ticks |-> 0]
Delta(n) == [given |-> TRUE, ticks |-> n]
Deltas == {NoDelta} \cup {Delta(n) : n \in (-MaxDelta) .. MaxDelta}

\* bool(expires_delta): None and timedelta(0) are both falsy
Truthy(expires_delta) == expires_delta.given /\ expires_delta.ticks # 0

\* timegm(dt.utctimetuple()): the datetime's whole seconds
ToIntDate(t) == t \div TicksPerSec

\* jwt.encode(claims, key, algorithm): a datetime "exp" has been converted
\* by the caller's model (ToIntDate); the signature covers alg and payload
JwtEncode(claims, key, alg) ==
    [shape |-> "jwt", alg |-> alg, payload |-> claims,
     key |-> key, signed |-> claims]

\* jwt.decode(token, key, algorithms=[alg]) at time t: the payload, or the
\* class of the error raised
JwtDecode(token, key, alg, t) ==
    IF token.shape = "garbage"
    THEN [err |-> "JWTError", payload |-> EmptyDict]       \* not enough segments
    ELSE IF token.alg # alg
    THEN [err |-> "JWTError", payload |-> EmptyDict]       \* alg not allowed
    ELSE IF token.key # key \/ token.signed # token.payload
    THEN [err |-> "JWTError", payload |-> EmptyDict]       \* signature
    ELSE IF token.shape = "badjson"
    THEN [err |-> "JWTError", payload |-> EmptyDict]       \* invalid payload
    ELSE IF "exp" \in DOMAIN token.payload
            /\ token.payload["exp"] < ToIntDate(t)         \* leeway 0
    THEN [err |-> "ExpiredSignatureError", payload |-> EmptyDict]
    ELSE [err |-> "ok", payload |-> token.payload]

\* the JWTError class and its subclasses
JWTErrors == {"JWTError", "ExpiredSignatureError", "JWTClaimsError"}

-----------------------------------------------------------------------------
(* app/core/security.py *)

\* create_access_token that encodes the expiry alone, losing the caller's data
create_access_token_DropsData(data, expires_delta, t) ==
    LET expire == IF Truthy(expires_delta)
                  THEN t + expires_delta.ticks
                  ELSE t + DefaultDelta
    IN  JwtEncode(DictUpdate(EmptyDict, "exp", ToIntDate(expire)),
                  secret_key, algorithm)

\* create_access_token(data, expires_delta) called at time t
create_access_token(data, expires_delta, t) ==
    LET expire == IF Truthy(expires_delta)
                  THEN t + expires_delta.ticks
                  ELSE t + DefaultDelta
        to_encode == DictUpdate(data, "exp", ToIntDate(expire))
    IN  JwtEncode(to_encode, secret_key, algorithm)

\* the result of decode_access_token: a claims dict, None, or an exception
\* that escapes
None == [kind |-> "None", payload |-> EmptyDict]
Raised == [kind |-> "raised", payload |-> EmptyDict]
Claims(p) == [kind |-> "claims", payload |-> p]

\* decode_access_token that catches ExpiredSignatureError alone
decode_access_token_CatchesExpiryOnly(token, t) ==
    LET r == JwtDecode(token, secret_key, algorithm, t)
    IN  IF r.err = "ok" THEN Claims(r.payload)
        ELSE IF r.err = "ExpiredSignatureError" THEN None
        ELSE Raised

\* decode_access_token(token) called at time t
decode_access_token(token, t) ==
    LET r == JwtDecode(token, secret_key, algorithm, t)
    IN  IF r.err = "ok" THEN Claims(r.payload)
        ELSE IF r.err \in JWTErrors THEN None
        ELSE Raised

-----------------------------------------------------------------------------
(* Tokens that were not made by create_access_token: signed with another  *)
(* key or algorithm, tampered with, malformed, or minted by another holder *)
(* of the secret.                                                          *)

NoToken == [shape |-> "none", alg |-> "", payload |-> EmptyDict,
            key |-> "", signed |-> EmptyDict]

ForeignPayloads == {s @@ x : s \in SubDicts, x \in ExpDicts({0, 1})}

Garbage ==
    [shape |-> "garbage", alg |-> algorithm, payload |-> EmptyDict,
     key |-> "", signed |-> EmptyDict]

ForeignTokens ==
    {Garbage}
    \cup {JwtEncode(p, k, a) : p \in ForeignPayloads,
                               k \in {secret_key, "another-secret"},
                               a \in {algorithm, "HS512"}}
    \cup {[JwtEncode(p, k, algorithm) EXCEPT !.shape = "badjson"] :
              p \in {EmptyDict}, k \in {secret_key, "another-secret"}}
    \cup {[JwtEncode(p, secret_key, algorithm) EXCEPT !.signed = EmptyDict] :
              p \in ForeignPayloads \ {EmptyDict}}

-----------------------------------------------------------------------------
(* app/api/v1/deps.py *)

\* Optional[HTTPAuthorizationCredentials], as HTTPBearer(auto_error=False)
\* hands it over: None without a bearer header
NoCredentials == [present |-> FALSE, credentials |-> NoToken]
Bearer(t) == [present |-> TRUE, credentials |-> t]

\* Optional[User]; of a User the resolver reads id and role
NoneUser == [some |-> FALSE, id |-> "", role |-> ""]
Roles == {"learner", "instructor", "Admin", "admin", "superuser"}
Users == [some : {TRUE}, id : {UUID1}, role : Roles]

\* the strings of the model that UUID(...) accepts
UUIDStrings == {UUID1}

HTTP_401_UNAUTHORIZED == 401
HTTP_403_FORBIDDEN == 403
NoHeaders == [h \in {} |-> ""]
Challenge == [h \in {"WWW-Authenticate"} |-> "Bearer"]
HTTPException(status_code, detail, headers) ==
    [status_code |-> status_code, detail |-> detail, headers |-> headers]
NoException == HTTPException(0, "", NoHeaders)

\* what a dependency does: it returns a user or raises an HTTPException;
\* decoded counts its calls of decode_access_token
Return(u, n) == [kind |-> "return", user |-> u, exc |-> NoException, decoded |-> n]
Raise(e, n) == [kind |-> "raise", user |-> NoneUser, exc |-> e, decoded |-> n]
\* an exception other than HTTPException leaves the dependency
Escapes(n) == [kind |-> "error", user |-> NoneUser, exc |-> NoException, decoded |-> n]
NotRun == [kind |-> "notrun", user |-> NoneUser, exc |-> NoException, decoded |-> 0]

\* get_current_user that runs the lookup its comment sketches: the row of
\* the session whose id is the token's subject, when there is one
get_current_user_LooksUpUser(credentials, session, t) ==
    IF ~credentials.present
    THEN Return(NoneUser, 0)
    ELSE LET payload == decode_access_token(credentials.credentials, t)
             user_id_str == DictGet(payload.payload, "sub")
             found == {u \in session : u.id = user_id_str}
         IN  IF payload.kind = "raised"
             THEN Escapes(1)
             ELSE IF payload.kind = "None" \/ DOMAIN payload.payload = {}
             THEN Raise(HTTPException(HTTP_401_UNAUTHORIZED,
                        "Invalid authentication credentials", Challenge), 1)
             ELSE IF user_id_str = NoValue \/ user_id_str = ""
             THEN Raise(HTTPException(HTTP_401_UNAUTHORIZED,
                        "Invalid token payload", Challenge), 1)
             ELSE IF user_id_str \notin UUIDStrings
             THEN Raise(HTTPException(HTTP_401_UNAUTHORIZED,
                        "Invalid user ID in token", Challenge), 1)
             ELSE IF found = {}
             THEN Return(NoneUser, 1)
             ELSE Return(CHOOSE u \in found : TRUE, 1)

\* get_current_user(credentials, session) called at time t; session gives
\* access to the rows of storage
get_current_user(credentials, session, t) ==
    IF ~credentials.present
    THEN Return(NoneUser, 0)
    ELSE LET payload == decode_access_token(credentials.credentials, t)
             user_id_str == DictGet(payload.payload, "sub")
         IN  IF payload.kind = "raised"
             THEN Escapes(1)
             ELSE IF payload.kind = "None" \/ DOMAIN payload.payload = {}
             THEN Raise(HTTPException(HTTP_401_UNAUTHORIZED,
                        "Invalid authentication credentials", Challenge), 1)
             ELSE IF user_id_str = NoValue \/ user_id_str = ""
             THEN Raise(HTTPException(HTTP_401_UNAUTHORIZED,
                        "Invalid token payload", Challenge), 1)
             ELSE IF user_id_str \notin UUIDStrings
             THEN Raise(HTTPException(HTTP_401_UNAUTHORIZED,
                        "Invalid user ID in token", Challenge), 1)
             ELSE Return(NoneUser, 1)

\* get_current_active_user that verifies the bearer token a second time
get_current_active_user_Reparses(current_user) ==
    IF ~current_user.some
    THEN Raise(HTTPException(HTTP_401_UNAUTHORIZED,
               "Not authenticated", Challenge), 1)
    ELSE Return(current_user, 1)

\* get_current_active_user that hands on whatever tier 0 yielded
get_current_active_user_LetsNoneThrough(current_user) ==
    Return(current_user, 0)

\* get_current_active_user(current_user)
get_current_active_user(current_user) ==
    IF ~current_user.some
    THEN Raise(HTTPException(HTTP_401_UNAUTHORIZED,
               "Not authenticated", Challenge), 0)
    ELSE Return(current_user, 0)

\* get_current_admin_user that compares the role without regard to case
get_current_admin_user_IgnoresCase(current_user) ==
    IF current_user.role \notin {"admin", "Admin"}
    THEN Raise(HTTPException(HTTP_403_FORBIDDEN,
               "Insufficient permissions. Admin role required.", NoHeaders), 0)
    ELSE Return(current_user, 0)

\* get_current_admin_user(current_user)
get_current_admin_user(current_user) ==
    IF current_user.role # "admin"
    THEN Raise(HTTPException(HTTP_403_FORBIDDEN,
               "Insufficient permissions. Admin role required.", NoHeaders), 0)
    ELSE Return(current_user, 0)

-----------------------------------------------------------------------------
(* app/dependencies/supabase.py and app/api/v1/endpoints/health.py *)

Urls == {"", "https://a.supabase.co", "https://b.supabase.co"}
Keys == {"", "anon-key"}

NoClient == [id |-> 0, url |-> "", key |-> ""]
EmptyCache == [full |-> FALSE, client |-> NoClient]

\* create_client(url, key): the n-th client the process constructs
create_client(url, key, n) == [id |-> n, url |-> url, key |-> key]

\* get_supabase_client with no lru_cache around it
get_supabase_client_Uncached(c, url, key, n) ==
    IF url = "" \/ key = ""
    THEN [raised |-> TRUE, client |-> NoClient, cache |-> c, created |-> n]
    ELSE [raised |-> FALSE, client |-> create_client(url, key, n + 1),
          cache |-> c, created |-> n + 1]

\* get_supabase_client() with the cache slot c, the settings url and key,
\* and n clients constructed so far: a hit returns the cached client; a miss
\* runs the body, whose result is stored and whose exception is not
get_supabase_client(c, url, key, n) ==
    IF c.full
    THEN [raised |-> FALSE, client |-> c.client, cache |-> c, created |-> n]
    ELSE IF url = "" \/ key = ""
    THEN [raised |-> TRUE, client |-> NoClient, cache |-> c, created |-> n]
    ELSE LET client == create_client(url, key, n + 1)
         IN  [raised |-> FALSE, client |-> client,
              cache |-> [full |-> TRUE, client |-> client], created |-> n + 1]

environment == "development"
NoHealthResponse ==
    [raised |-> FALSE, app |-> "", status |-> "", environment |-> "",
     supabase_configured |-> FALSE]

\* health_check that does not catch SupabaseNotConfiguredError
health_check_NoCatch(g) ==
    [raised |-> g.raised, app |-> "v1", status |-> "ok",
     environment |-> environment, supabase_configured |-> TRUE]

\* health_check(), given the outcome g of its call of get_supabase_client;
\* app is settings.api_v1_prefix.lstrip("/"), "v1" of "/v1"
health_check(g) ==
    [raised |-> FALSE, app |-> "v1", status |-> "ok",
     environment |-> environment, supabase_configured |-> ~g.raised]

-----------------------------------------------------------------------------
(* app/core/database.py *)

RequestIds == 1 .. MaxRequests
Exits == {"return", "throw", "cancel"}

\* get_async_session that closes the session after the yield returns, with
\* neither try/finally nor a context manager
get_async_session_NoFinally(how) ==
    IF how = "return" THEN "finally" ELSE "ended"

\* where get_async_session goes on from its yield when the request leaves by
\* how: the finally clause, on every path
get_async_session(how) == "finally"

-----------------------------------------------------------------------------
(* The state machine: clients, tokens and one request at a time *)

NotIssued == [issued |-> FALSE, data |-> EmptyDict, delta |-> NoDelta, at |-> 0]
NoResult == [called |-> FALSE, at |-> 0, out |-> None]
NoResponse == [status_code |-> 0, detail |-> "", headers |-> NoHeaders]
NoCall == [fn |-> "", arg |-> NoneUser, out |-> NotRun]
Tiers == 0 .. 2

TokenInit ==
    /\ now = 0
    /\ tok = NoToken
    /\ iss = NotIssued
    /\ res = NoResult

AuthInit ==
    /\ storage = {}
    /\ pc = "idle"
    /\ route = 0
    /\ creds = NoCredentials
    /\ nxt = 0
    /\ dep = [n \in Tiers |-> NotRun]
    /\ resp = NoResponse
    /\ decodes = 0
    /\ call = NoCall

HealthInit ==
    /\ supabase_url = ""
    /\ supabase_key = ""
    /\ cache = EmptyCache
    /\ created = 0
    /\ calls = 0
    /\ lastGet = [called |-> FALSE, url |-> "", key |-> "", hit |-> FALSE,
                  raised |-> FALSE, client |-> NoClient]
    /\ health = [called |-> FALSE, url |-> "", key |-> "", hit |-> FALSE,
                 response |-> NoHealthResponse]

NoRequest == [pc |-> "none", sid |-> 0, how |-> "return"]

SessionInit ==
    /\ rq = [r \in RequestIds |-> NoRequest]
    /\ sess = <<>>

Init ==
    /\ TokenInit
    /\ AuthInit
    /\ HealthInit
    /\ SessionInit

\* the clock advances by one tick (between requests: a request reads the
\* clock once, when tier 0 verifies the token)
Tick ==
    /\ pc = "idle"
    /\ now % DefaultDelta < MaxTicks
    /\ now' = now + 1
    /\ UNCHANGED <<tokenVars, authVars, healthVars, sessionVars>>

\* the clock advances by the default token lifetime
Jump ==
    /\ pc = "idle"
    /\ now \div DefaultDelta < MaxJumps
    /\ now' = now + DefaultDelta
    /\ UNCHANGED <<tokenVars, authVars, healthVars, sessionVars>>

\* a client without a token is issued one
Issue(data, delta) ==
    /\ pc = "idle"
    /\ tok = NoToken
    /\ tok' = create_access_token(data, delta, now)
    /\ iss' = [issued |-> TRUE, data |-> data, delta |-> delta, at |-> now]
    /\ res' = NoResult
    /\ UNCHANGED <<now, authVars, healthVars, sessionVars>>

\* a client without a token takes one from elsewhere
Present(t) ==
    /\ pc = "idle"
    /\ tok = NoToken
    /\ tok' = t
    /\ iss' = NotIssued
    /\ res' = NoResult
    /\ UNCHANGED <<now, authVars, healthVars, sessionVars>>

\* the client drops its token
Discard ==
    /\ pc = "idle"
    /\ tok # NoToken
    /\ tok' = NoToken
    /\ iss' = NotIssued
    /\ res' = NoResult
    /\ UNCHANGED <<now, authVars, healthVars, sessionVars>>

\* the held token is verified
Decode ==
    /\ tok # NoToken
    /\ res' = [called |-> TRUE, at |-> now, out |-> decode_access_token(tok, now)]
    /\ UNCHANGED <<now, tok, iss, authVars, healthVars, sessionVars>>

TokenNext ==
    \/ Tick
    \/ Jump
    \/ \E d \in DataDicts, dl \in Deltas : Issue(d, dl)
    \/ \E t \in ForeignTokens : Present(t)
    \/ Discard
    \/ Decode

TokenSpec == Init /\ [][TokenNext]_vars

\* a row is written to the users table
AddUser(u) ==
    /\ pc = "idle"
    /\ storage = {}
    /\ storage' = {u}
    /\ UNCHANGED <<now, tokenVars, pc, route, creds, nxt, dep, resp, decodes, call, healthVars, sessionVars>>

\* a request arrives for a route that depends on tier r, with the held token
\* as its bearer credentials or with none
StartRequest(r, withToken) ==
    /\ pc = "idle"
    /\ withToken => tok # NoToken
    /\ pc' = "solving"
    /\ route' = r
    /\ creds' = IF withToken THEN Bearer(tok) ELSE NoCredentials
    /\ nxt' = 0
    /\ dep' = [n \in Tiers |-> NotRun]
    /\ resp' = NoResponse
    /\ decodes' = 0
    /\ call' = NoCall
    /\ UNCHANGED <<now, tokenVars, storage, healthVars, sessionVars>>

\* Depends(...): the dependency of tier n called with what the tier below
\* returned
Dependency(n) ==
    CASE n = 0 -> get_current_user(creds, storage, now)
      [] n = 1 -> get_current_active_user(dep[0].user)
      [] n = 2 -> get_current_admin_user(dep[1].user)

\* the response the framework makes of an HTTPException
ExceptionResponse(e) ==
    [status_code |-> e.status_code, detail |-> e.detail, headers |-> e.headers]

\* the next dependency of the chain is solved: what it raises ends the
\* request, what it returns goes to the tier above or to the endpoint
SolveDependency ==
    /\ pc = "solving"
    /\ LET r == Dependency(nxt)
       IN  /\ dep' = [dep EXCEPT ![nxt] = r]
           /\ decodes' = decodes + r.decoded
           /\ IF r.kind = "raise"
              THEN /\ resp' = ExceptionResponse(r.exc)
                   /\ pc' = "done"
                   /\ nxt' = nxt
              ELSE IF r.kind = "error"
              THEN /\ resp' = [status_code |-> 500,
                               detail |-> "Internal Server Error",
                               headers |-> NoHeaders]
                   /\ pc' = "done"
                   /\ nxt' = nxt
              ELSE /\ resp' = resp
                   /\ pc' = IF nxt = route THEN "endpoint" ELSE "solving"
                   /\ nxt' = IF nxt = route THEN nxt ELSE nxt + 1
    /\ UNCHANGED <<now, tokenVars, storage, route, creds, call, healthVars, sessionVars>>

\* the endpoint of the route runs and answers
Endpoint ==
    /\ pc = "endpoint"
    /\ resp' = [status_code |-> 200, detail |-> "", headers |-> NoHeaders]
    /\ pc' = "done"
    /\ UNCHANGED <<now, tokenVars, storage, route, creds, nxt, dep, decodes, call, healthVars, sessionVars>>

\* the response has been sent
Finish ==
    /\ pc = "done"
    /\ pc' = "idle"
    /\ route' = 0
    /\ creds' = NoCredentials
    /\ nxt' = 0
    /\ dep' = [n \in Tiers |-> NotRun]
    /\ resp' = NoResponse
    /\ decodes' = 0
    /\ UNCHANGED <<now, tokenVars, storage, call, healthVars, sessionVars>>

\* get_current_active_user is called with an optional user
CallActive(u) ==
    /\ pc = "idle"
    /\ call' = [fn |-> "get_current_active_user", arg |-> u,
                out |-> get_current_active_user(u)]
    /\ UNCHANGED <<now, tokenVars, storage, pc, route, creds, nxt, dep, resp, decodes, healthVars, sessionVars>>

\* get_current_admin_user is called with a user
CallAdmin(u) ==
    /\ pc = "idle"
    /\ call' = [fn |-> "get_current_admin_user", arg |-> u,
                out |-> get_current_admin_user(u)]
    /\ UNCHANGED <<now, tokenVars, storage, pc, route, creds, nxt, dep, resp, decodes, healthVars, sessionVars>>

\* the settings are given another Supabase URL and key
Configure(url, key) ==
    /\ supabase_url' = url
    /\ supabase_key' = key
    /\ UNCHANGED <<now, tokenVars, authVars, cache, created, calls, lastGet, health, sessionVars>>

\* get_supabase_client() is called
GetClient ==
    /\ calls < MaxCalls
    /\ LET g == get_supabase_client(cache, supabase_url, supabase_key, created)
       IN  /\ cache' = g.cache
           /\ created' = g.created
           /\ lastGet' = [called |-> TRUE, url |-> supabase_url,
                          key |-> supabase_key, hit |-> cache.full,
                          raised |-> g.raised, client |-> g.client]
    /\ calls' = calls + 1
    /\ UNCHANGED <<now, tokenVars, authVars, supabase_url, supabase_key, health, sessionVars>>

\* GET /health
HealthCheck ==
    /\ calls < MaxCalls
    /\ LET g == get_supabase_client(cache, supabase_url, supabase_key, created)
       IN  /\ cache' = g.cache
           /\ created' = g.created
           /\ lastGet' = [called |-> TRUE, url |-> supabase_url,
                          key |-> supabase_key, hit |-> cache.full,
                          raised |-> g.raised, client |-> g.client]
           /\ health' = [called |-> TRUE, url |-> supabase_url,
                         key |-> supabase_key, hit |-> cache.full,
                         response |-> health_check(g)]
    /\ calls' = calls + 1
    /\ UNCHANGED <<now, tokenVars, authVars, supabase_url, supabase_key, sessionVars>>

HealthNext ==
    \/ \E u \in Urls, k \in Keys : Configure(u, k)
    \/ GetClient
    \/ HealthCheck

HealthSpec == Init /\ [][HealthNext]_vars

\* a request arrives whose dependencies include get_async_session
Arrive(r) ==
    /\ rq[r].pc \in {"none", "ended"}
    /\ Len(sess) < MaxSessions
    /\ rq' = [rq EXCEPT ![r] = [pc |-> "start", sid |-> 0, how |-> "return"]]
    /\ UNCHANGED <<now, tokenVars, authVars, healthVars, sess>>

\* async with async_session_maker() as session: a new session is opened
Enter(r) ==
    /\ rq[r].pc = "start"
    /\ sess' = Append(sess, "open")
    /\ rq' = [rq EXCEPT ![r] = [pc |-> "try", sid |-> Len(sess) + 1, how |-> "return"]]
    /\ UNCHANGED <<now, tokenVars, authVars, healthVars>>

\* yield session: the request runs with the session
Yield(r) ==
    /\ rq[r].pc = "try"
    /\ rq' = [rq EXCEPT ![r].pc = "yielded"]
    /\ UNCHANGED <<now, tokenVars, authVars, healthVars, sess>>

\* the request leaves: its endpoint returned, a dependency or the endpoint
\* threw, or its task was cancelled; the generator is resumed accordingly
Leave(r, how) ==
    /\ rq[r].pc = "yielded"
    /\ rq' = [rq EXCEPT ![r].pc = get_async_session(how), ![r].how = how]
    /\ UNCHANGED <<now, tokenVars, authVars, healthVars, sess>>

\* finally: await session.close(); a cancellation may arrive during the
\* await and leave the session open for the context manager
Finally(r, interrupted) ==
    /\ rq[r].pc = "finally"
    /\ sess' = IF interrupted THEN sess ELSE [sess EXCEPT ![rq[r].sid] = "closed"]
    /\ rq' = [rq EXCEPT ![r].pc = "aexit",
                        ![r].how = IF interrupted THEN "cancel" ELSE @]
    /\ UNCHANGED <<now, tokenVars, authVars, healthVars>>

\* the exit of async with: the session is closed, shielded from cancellation
AExit(r) ==
    /\ rq[r].pc = "aexit"
    /\ sess' = [sess EXCEPT ![rq[r].sid] = "closed"]
    /\ rq' = [rq EXCEPT ![r].pc = "ended"]
    /\ UNCHANGED <<now, tokenVars, authVars, healthVars>>

SessionNext ==
    \/ \E r \in RequestIds : Arrive(r)
    \/ \E r \in RequestIds : Enter(r)
    \/ \E r \in RequestIds : Yield(r)
    \/ \E r \in RequestIds, how \in Exits : Leave(r, how)
    \/ \E r \in RequestIds, i \in BOOLEAN : Finally(r, i)
    \/ \E r \in RequestIds : AExit(r)

SessionSpec == Init /\ [][SessionNext]_vars

\* the event loop resumes a generator that is being closed
SessionFairness ==
    \A r \in RequestIds :
        /\ WF_vars(\E i \in BOOLEAN : Finally(r, i))
        /\ WF_vars(AExit(r))

FairSessionSpec == SessionSpec /\ SessionFairness

AuthNext ==
    \/ Tick
    \/ Jump
    \/ \E d \in DataDicts : Issue(d, NoDelta)
    \/ \E t \in ForeignTokens : Present(t)
    \/ Discard
    \/ \E u \in Users : AddUser(u)
    \/ \E r \in Tiers, w \in BOOLEAN : StartRequest(r, w)
    \/ SolveDependency
    \/ Endpoint
    \/ Finish
    \/ \E u \in Users \cup {NoneUser} : CallActive(u)
    \/ \E u \in Users : CallAdmin(u)

AuthSpec == Init /\ [][AuthNext]_vars

-----------------------------------------------------------------------------
(* Properties of the token service *)

\* the lifetime the caller asked for: expires_delta, or the default
RequestedTicks(delta) == IF delta.given THEN delta.ticks ELSE DefaultDelta

\* tok was made by create_access_token and has since been verified
IssuedAndVerified == iss.issued /\ res.called

\* the signature of tok verifies under the configured secret and algorithm
SignatureOk(t) ==
    /\ t.shape # "garbage"
    /\ t.alg = algorithm
    /\ t.key = secret_key
    /\ t.signed = t.payload

\* the expiry of tok lies before the second of time at
ExpiryPassed(t, at) ==
    "exp" \in DOMAIN t.payload /\ t.payload["exp"] < ToIntDate(at)

C2_NonPositiveTtlFails ==
    (/\ IssuedAndVerified
     /\ res.at >= iss.at
     /\ \/ (iss.delta.given /\ iss.delta.ticks <= 0)
        \/ res.at >= iss.at + RequestedTicks(iss.delta)) =>
        res.out = None

-----------------------------------------------------------------------------
(* Properties of the auth resolver *)

Unauthorized(detail) == HTTPException(HTTP_401_UNAUTHORIZED, detail, Challenge)

\* what the token of the request's credentials verifies to, and its subject
CredsPayload == decode_access_token(creds.credentials, now)
CredsSub == DictGet(CredsPayload.payload, "sub")

\* C4: tier 0 returns None without credentials; with credentials it raises
\* 401 with the challenge header and the reason of the first check that
\* fails (verification, then a missing or empty "sub", then a "sub" that is
\* no UUID); and with a valid token and a UUID subject it returns None,
\* whatever storage holds.
C4_TierZeroOutcomes ==
    dep[0].kind # "notrun" =>
        IF ~creds.present
        THEN dep[0].kind = "return" /\ ~dep[0].user.some
        ELSE IF CredsPayload.kind # "claims"
        THEN dep[0].kind = "raise"
             /\ dep[0].exc = Unauthorized("Invalid authentication credentials")
        ELSE IF CredsSub = NoValue \/ CredsSub = ""
        THEN dep[0].kind = "raise"
             /\ dep[0].exc = Unauthorized("Invalid token payload")
        ELSE IF CredsSub \notin UUIDStrings
        THEN dep[0].kind = "raise"
             /\ dep[0].exc = Unauthorized("Invalid user ID in token")
        ELSE dep[0].kind = "return" /\ ~dep[0].user.some

\* C5: tier 2 raises 403 for every user whose role is not the string
\* "admin", and for the role "admin" returns the user it was given.
C5_AdminOnly ==
    call.fn = "get_current_admin_user" =>
        /\ call.arg.role # "admin" =>
               /\ call.out.kind = "raise"
               /\ call.out.exc.status_code = HTTP_403_FORBIDDEN
        /\ call.arg.role = "admin" =>
               /\ call.out.kind = "return"
               /\ call.out.user = call.arg

C5_Witness ==
    /\ call.fn = "get_current_admin_user"
    /\ call.arg.role = "Admin"
    /\ call.out.kind = "raise"

\* tier 1's result `out` for the optional user `arg`
TierOneContract(arg, out) ==
    /\ out.kind = "raise" <=> ~arg.some
    /\ ~arg.some => out.exc = Unauthorized("Not authenticated")
    /\ arg.some => out.kind = "return" /\ out.user = arg

\* C6: tier 1 raises 401 "Not authenticated" with the challenge header
\* exactly when it is given no identity, and otherwise returns the identity
\* it was given; in a request, what it is given is what tier 0 returned.
C6_ActiveUser ==
    /\ call.fn = "get_current_active_user" => TierOneContract(call.arg, call.out)
    /\ dep[1].kind # "notrun" =>
           dep[0].kind = "return" /\ TierOneContract(dep[0].user, dep[1])

C6_Witness ==
    /\ call.fn = "get_current_active_user"
    /\ call.arg.some
    /\ call.out.kind = "return"

\* C7: in a request the token is verified at most once, by tier 0 alone;
\* what a tier raises ends the request with that exception as the response,
\* and no tier above it runs.
C7_FailurePropagates ==
    /\ decodes <= 1
    /\ decodes = dep[0].decoded
    /\ \A n \in Tiers :
           dep[n].kind = "raise" =>
               /\ pc = "done"
               /\ resp = ExceptionResponse(dep[n].exc)
               /\ \A m \in Tiers : m > n => dep[m] = NotRun

C7_Witness ==
    /\ pc = "done"
    /\ route = 2
    /\ creds.present
    /\ dep[0].kind = "raise"
    /\ resp.status_code = HTTP_401_UNAUTHORIZED
    /\ resp.detail = "Invalid token payload"

-----------------------------------------------------------------------------
(* Properties of the Supabase client and the health check *)

Configured(url, key) == url # "" /\ key # ""

\* C8 as stated: at every health check the flag is false when URL or key is
\* empty and true when both are non-empty, the status is "ok", and nothing
\* is raised.
C8_FlagFollowsSettings ==
    health.called =>
        /\ ~health.response.raised
        /\ health.response.status = "ok"
        /\ health.response.supabase_configured <=> Configured(health.url, health.key)

\* C8 amended: at every health check the flag is true when a client had
\* been constructed before the check or URL and key are both non-empty, and
\* false otherwise; the status is "ok" and nothing is raised.
C8_FlagFollowsCacheOrSettings ==
    health.called =>
        /\ ~health.response.raised
        /\ health.response.status = "ok"
        /\ health.response.supabase_configured <=>
               (health.hit \/ Configured(health.url, health.key))

C8_Witness ==
    /\ health.called
    /\ health.hit
    /\ ~Configured(health.url, health.key)
    /\ health.response.supabase_configured

\* what holds of the cache and of the last call in every state
C9_State ==
    /\ created <= 1
    /\ cache.full <=> created = 1
    /\ lastGet.called =>
           /\ lastGet.raised <=> (~lastGet.hit /\ ~Configured(lastGet.url, lastGet.key))
           /\ lastGet.raised => ~cache.full
           /\ ~lastGet.raised => cache.full /\ lastGet.client = cache.client

\* what holds of every step once a client is cached
C9_Step ==
    cache.full =>
        /\ cache' = cache
        /\ created' = created
        /\ lastGet' # lastGet => ~lastGet'.raised /\ lastGet'.client = cache.client

\* C9: as long as no call has succeeded, a call with an empty URL or key
\* raises and leaves the cache empty, and the next call evaluates the
\* settings again; the first call that succeeds constructs the one client of
\* the process, and every later call returns that client and constructs none.
C9_MemoizedOnce == []C9_State /\ [][C9_Step]_vars

C9_Witness ==
    /\ lastGet.called
    /\ lastGet.hit
    /\ ~Configured(lastGet.url, lastGet.key)
    /\ lastGet.client = cache.client
    /\ calls = MaxCalls
    /\ created = 1

-----------------------------------------------------------------------------
(* Properties of the database session *)

Holding(r) == rq[r].pc \in {"try", "yielded", "finally", "aexit"}

\* what holds of the sessions in every state: a request that has ended left
\* its session closed, two requests never share a session, and every open
\* session is held by a request still in flight
C10_State ==
    /\ \A r \in RequestIds :
           rq[r].pc = "ended" => rq[r].sid \in DOMAIN sess /\ sess[rq[r].sid] = "closed"
    /\ \A r1, r2 \in RequestIds :
           (r1 # r2 /\ rq[r1].sid # 0) => rq[r1].sid # rq[r2].sid
    /\ \A s \in DOMAIN sess :
           sess[s] = "open" => \E r \in RequestIds : Holding(r) /\ rq[r].sid = s

\* C10: every session opened for a request is closed once the request
\* leaves, whether by return, by a thrown fault or by cancellation; no
\* session is open after its request has ended; each request has a session
\* of its own.
C10_SessionReleased ==
    /\ []C10_State
    /\ \A r \in RequestIds :
           (rq[r].pc = "finally") ~> (rq[r].pc = "ended" /\ sess[rq[r].sid] = "closed")

C10_Witness ==
    /\ rq[1].pc = "ended"
    /\ rq[1].how = "cancel"
    /\ sess[rq[1].sid] = "closed"
    /\ rq[2].pc = "yielded"
    /\ sess[rq[2].sid] = "open"

=============================================================================
